---- MODULE Spec2Model ----
(***************************************************************************)
(* Manan: the chapter distillation and caching pipeline of App.tsx.        *)
(*                                                                         *)
(* The React component is modelled as a state machine.  Every user event   *)
(* handler, timer callback and promise continuation is one action; an      *)
(* action also contains the re-render and the effects (useEffect) that     *)
(* React runs after the handler, because the program cannot be observed    *)
(* between a handler and the effects of the render it causes.              *)
(*                                                                         *)
(* A closure created by useCallback is represented by the values it        *)
(* captured (book and the three filters); requests in flight and pending   *)
(* timers carry the closure they were created from.                        *)
(***************************************************************************)
EXTENDS Integers, Sequences, FiniteSets, TLC

\* ---------------------------------------------------------------- bounds
\* number of segments of an uploaded document
NumSegs == 4
\* number of user events (clicks, uploads) in one behaviour
MaxUserActions == 3
\* number of those that are events on cards, notes, tags and the search
MaxLedgerActions == 2
\* the longest document whose search window is computed on its own
MaxDocLen == 8

\* ------------------------------------------------------------- constants
QUOTE == "quote"
LEARNING == "learning"
INSIGHT == "insight"
NuggetType == {QUOTE, LEARNING, INSIGHT}

\* cost of one token in units of 1e-9 dollars (0.075 and 0.30 per million)
COST_PER_1M_INPUT == 75
COST_PER_1M_OUTPUT == 300

\* null / undefined of a record-valued slot
Null == [null |-> TRUE]
NoError == "null"
\* no nugget and no text: the argument of a step that has none
NoArg == [id |-> << >>, text |-> << >>]
AnalysisFailedMsg == "Analysis failed. Please check your internet connection and API key."
ParseErrorMsg == "Error parsing book"

\* ------------------------------------------------------------ the inputs
\* the files the user can upload; every file parses to NumSegs segments
Files == {"bookA"}
\* the nugget types whose filter button the user presses
ToggleTypes == {QUOTE}
\* the characters of the texts the user types
SPACE == " "
HASH == "#"
\* what the user types into the tag input of a card
TagInputs == {<<SPACE>>, <<SPACE, HASH, "a", SPACE>>, <<"a">>, <<HASH, HASH, "a">>}
\* the cards whose tags the user edits, by their position in the segment
TaggedCards == {1}
\* what the user types into the context search
SearchQueries == {<<"q">>}
\* what recallSearch finds
SearchResults == {[content |-> "found", type |-> INSIGHT, source |-> "src"]}
\* token usage reported by one extraction call
Usages == {[input |-> 2, output |-> 1]}

VARIABLES
  book,                 \* useState<Book | null>
  currentChapterIndex,  \* useState(0)
  currentChapterData,   \* useState<ChapterData | null>
  notes,                \* useState<NoteItem[]>
  isProcessing,         \* useState(false)
  isAnalyzing,          \* useState(false)
  error,                \* useState<string | null>
  stats,                \* useState<UsageStats>
  analyzeBackMatter,    \* useState(false)
  analyzeBoilerplate,   \* useState(false)
  selectedNuggetTypes,  \* useState<NuggetType[]> (order is not modelled)
  cachedChapters,       \* useRef<Map<number, ChapterData>>
  isPrefetching,        \* useRef<boolean>
  localStorage,         \* browser storage: storage key -> snapshot
  inflight,             \* extraction calls awaiting their response
  timers,               \* pending setTimeout(prefetchNext, 500), in firing order
  parsing,              \* the file handleFileUpload is awaiting the parser for
  isSearching,          \* useState(false)
  searchCall,           \* the recallSearch call handleSearch awaits, or Null
  ledgerActs,           \* number of user events on cards, notes, tags, search
  applied,              \* a function of the program applied to an input on
                        \* its own: its name, the input, the output (Null
                        \* before the call, and while the program runs)
  inForce,              \* history: for every call in flight, the nugget
                        \* types selected when it was issued
  stale,                \* history: the calls in flight that were issued
                        \* before the last reset
  billed,               \* history: what the successful calls of the
                        \* document session add up to
  acts,                 \* number of user events so far
  last,                 \* history: the action taken last, its outcome, and
                        \* the segment index it was about (-1: none)
  armed,                \* history: the index whose prefetch the last display
                        \* scheduled, while nothing has intervened; else -1
  armedIdle             \* history: the same for a display that happened
                        \* while no prefetch was busy, whatever its timer
                        \* finds when it fires

vars == <<book, currentChapterIndex, currentChapterData, notes, isProcessing,
          isAnalyzing, error, stats, analyzeBackMatter, analyzeBoilerplate,
          selectedNuggetTypes, cachedChapters, isPrefetching, localStorage,
          inflight, timers, parsing, isSearching, searchCall, ledgerActs,
          applied, inForce, stale, billed, acts, last, armed, armedIdle>>

\* the whole state as one record, so that handlers are functions on states
Cur ==
  [book |-> book, currentChapterIndex |-> currentChapterIndex,
   currentChapterData |-> currentChapterData, notes |-> notes,
   isProcessing |-> isProcessing, isAnalyzing |-> isAnalyzing,
   error |-> error, stats |-> stats,
   analyzeBackMatter |-> analyzeBackMatter,
   analyzeBoilerplate |-> analyzeBoilerplate,
   selectedNuggetTypes |-> selectedNuggetTypes,
   cachedChapters |-> cachedChapters, isPrefetching |-> isPrefetching,
   localStorage |-> localStorage, inflight |-> inflight, timers |-> timers,
   parsing |-> parsing, isSearching |-> isSearching, searchCall |-> searchCall]

Commit(s) ==
  /\ book' = s.book
  /\ currentChapterIndex' = s.currentChapterIndex
  /\ currentChapterData' = s.currentChapterData
  /\ notes' = s.notes
  /\ isProcessing' = s.isProcessing
  /\ isAnalyzing' = s.isAnalyzing
  /\ error' = s.error
  /\ stats' = s.stats
  /\ analyzeBackMatter' = s.analyzeBackMatter
  /\ analyzeBoilerplate' = s.analyzeBoilerplate
  /\ selectedNuggetTypes' = s.selectedNuggetTypes
  /\ cachedChapters' = s.cachedChapters
  /\ isPrefetching' = s.isPrefetching
  /\ localStorage' = s.localStorage
  /\ inflight' = s.inflight
  /\ isSearching' = s.isSearching
  /\ searchCall' = s.searchCall
  /\ timers' = s.timers
  /\ parsing' = s.parsing

\* ------------------------------------------------------- the Map of the cache
EmptyMap == [k \in {} |-> Null]
MapHas(m, k) == k \in DOMAIN m
MapGet(m, k) == IF k \in DOMAIN m THEN m[k] ELSE Null
MapSet(m, k, v) == [x \in (DOMAIN m) \cup {k} |-> IF x = k THEN v ELSE m[x]]

\* ------------------------------------------------------------ documents
\* parsePdf / parseEpub: title from the file name, chunks and locations
ParseBook(file) ==
  [title |-> file,
   chapters |-> [i \in 0..(NumSegs - 1) |-> <<"text", i>>],
   chapterLocations |-> [i \in 0..(NumSegs - 1) |-> <<"Section", i + 1>>]]

BookLength(b) == Cardinality(DOMAIN b.chapters)

\* Math.max and Math.min
Max(a, b) == IF a > b THEN a ELSE b
Min(a, b) == IF a < b THEN a ELSE b

\* book.chapters[index] and book.chapterLocations[index]: undefined beyond
\* the end of the arrays
ChapterText(b, index) ==
  IF index \in DOMAIN b.chapters THEN b.chapters[index] ELSE <<"undefined", -1>>
ChapterLocation(b, index) ==
  IF index \in DOMAIN b.chapterLocations THEN b.chapterLocations[index] ELSE <<"undefined", -1>>

\* storageKey: manan_progress_<title>, null without a book
StorageKey(b) == IF b = Null THEN "null" ELSE b.title

StorageKeys == {ParseBook(f).title : f \in Files}

\* ------------------------------------------------- the extraction service
\* the structured response of the language model for one segment text:
\* the second segment is boilerplate front matter (the first one holds a
\* foreword the model takes for content), the last one back matter, the
\* others body; every segment holds one quote and one learning, whatever
\* types the prompt asks for
RawResponse(chapterText) ==
  LET i == chapterText[2] IN
  [title |-> <<"title", i>>,
   isBoilerplate |-> (i = 1),
   isBackMatter |-> (i = NumSegs - 1),
   nuggets |-> << [id |-> "n0", type |-> QUOTE, content |-> <<"content", i, 0>>],
                  [id |-> "n1", type |-> LEARNING, content |-> <<"content", i, 1>>] >>]

\* scanChapterForNuggets if it skipped nothing
ScanChapterForNuggetsNoSkip(rawData, usage, chapterIndex, locationLabel, includeBackMatter, includeBoilerplate, selectedTypes) ==
  LET Selected(n) == n.type \in selectedTypes
      filteredNuggets == SelectSeq(rawData.nuggets, Selected)
  IN [data |-> [title |-> rawData.title,
                isBackMatter |-> rawData.isBackMatter,
                isFrontMatter |-> rawData.isBoilerplate,
                nuggets |-> [idx \in 1..Len(filteredNuggets) |->
                   [id |-> <<"c", chapterIndex, filteredNuggets[idx].id>>,
                    type |-> filteredNuggets[idx].type,
                    content |-> filteredNuggets[idx].content,
                    locationLabel |-> locationLabel,
                    sortIndex |-> idx - 1]]],
      usage |-> usage]

\* scanChapterForNuggets if it numbered the nuggets before filtering them
ScanChapterForNuggetsNumberedFirst(rawData, usage, chapterIndex, locationLabel, includeBackMatter, includeBoilerplate, selectedTypes) ==
  LET skipBecauseBoilerplate == rawData.isBoilerplate /\ ~includeBoilerplate
      skipBecauseBackMatter == rawData.isBackMatter /\ ~includeBackMatter
      numbered == [p \in 1..Len(rawData.nuggets) |-> [n |-> rawData.nuggets[p], idx |-> p - 1]]
      Selected(e) == e.n.type \in selectedTypes
      filteredNuggets == SelectSeq(numbered, Selected)
  IN [data |-> [title |-> rawData.title,
                isBackMatter |-> rawData.isBackMatter,
                isFrontMatter |-> rawData.isBoilerplate,
                nuggets |-> IF skipBecauseBoilerplate \/ skipBecauseBackMatter THEN << >>
                            ELSE [k \in 1..Len(filteredNuggets) |->
                               [id |-> <<"c", chapterIndex, filteredNuggets[k].n.id>>,
                                type |-> filteredNuggets[k].n.type,
                                content |-> filteredNuggets[k].n.content,
                                locationLabel |-> locationLabel,
                                sortIndex |-> filteredNuggets[k].idx]]],
      usage |-> usage]

\* scanChapterForNuggets after the structured response has arrived
ScanChapterForNuggets(rawData, usage, chapterIndex, locationLabel, includeBackMatter, includeBoilerplate, selectedTypes) ==
  LET skipBecauseBoilerplate == rawData.isBoilerplate /\ ~includeBoilerplate
      skipBecauseBackMatter == rawData.isBackMatter /\ ~includeBackMatter
      Selected(n) == n.type \in selectedTypes
      filteredNuggets == SelectSeq(rawData.nuggets, Selected)
  IN
  IF skipBecauseBoilerplate \/ skipBecauseBackMatter
  THEN [data |-> [title |-> rawData.title,
                  isBackMatter |-> rawData.isBackMatter,
                  isFrontMatter |-> rawData.isBoilerplate,
                  nuggets |-> << >>],
        usage |-> usage]
  ELSE [data |-> [title |-> rawData.title,
                  isBackMatter |-> rawData.isBackMatter,
                  isFrontMatter |-> rawData.isBoilerplate,
                  nuggets |-> [idx \in 1..Len(filteredNuggets) |->
                     [id |-> <<"c", chapterIndex, filteredNuggets[idx].id>>,
                      type |-> filteredNuggets[idx].type,
                      content |-> filteredNuggets[idx].content,
                      locationLabel |-> locationLabel,
                      sortIndex |-> idx - 1]]],
        usage |-> usage]

\* a response text that is no structured answer: the empty text, and a text
\* that is not JSON
EmptyText == [kind |-> "empty"]
GarbageText == [kind |-> "unparsable"]
MalformedTexts == {EmptyText, GarbageText}

\* a call that throws
Thrown == [threw |-> TRUE]

\* JSON.parse((response.text || "{}").trim()) for those texts: the empty
\* text gives the object without properties
ParseText(text) == IF text = EmptyText THEN [f \in {} |-> Null] ELSE Thrown

\* scanChapterForNuggets after such a response has arrived: the flags of the
\* object are undefined, and so is the list the filter is called on
ScanMalformed(text, usage, chapterIndex, locationLabel, includeBackMatter, includeBoilerplate, selectedTypes) ==
  LET rawData == ParseText(text)
      Has(f) == f \in DOMAIN rawData
      skipBecauseBoilerplate == Has("isBoilerplate") /\ rawData.isBoilerplate /\ ~includeBoilerplate
      skipBecauseBackMatter == Has("isBackMatter") /\ rawData.isBackMatter /\ ~includeBackMatter
  IN IF rawData = Thrown THEN Thrown
     ELSE IF skipBecauseBoilerplate \/ skipBecauseBackMatter
     THEN [data |-> [title |-> "undefined", isBackMatter |-> FALSE,
                     isFrontMatter |-> FALSE, nuggets |-> << >>],
           usage |-> usage]
     ELSE IF ~Has("nuggets") THEN Thrown
     ELSE ScanChapterForNuggets(rawData, usage, chapterIndex, locationLabel,
                                includeBackMatter, includeBoilerplate, selectedTypes)

\* calculateCost, in units of 1e-9 dollars
calculateCost(inputTokens, outputTokens) ==
  inputTokens * COST_PER_1M_INPUT + outputTokens * COST_PER_1M_OUTPUT

ZeroStats == [totalInputTokens |-> 0, totalOutputTokens |-> 0, estimatedCost |-> 0]

\* the updater passed to setStats by both completion handlers
AddUsage(prev, usage) ==
  [totalInputTokens |-> prev.totalInputTokens + usage.input,
   totalOutputTokens |-> prev.totalOutputTokens + usage.output,
   estimatedCost |-> prev.estimatedCost + calculateCost(usage.input, usage.output)]

\* ------------------------------------------------------------- closures
\* what prefetchNext and analyzeChapter capture in the render that made them
Closure(s) ==
  [book |-> s.book,
   analyzeBackMatter |-> s.analyzeBackMatter,
   analyzeBoilerplate |-> s.analyzeBoilerplate,
   selectedNuggetTypes |-> s.selectedNuggetTypes]

\* an extraction call in flight: who awaits it, and its arguments
Request(rid, kind, index, clo) ==
  [rid |-> rid, kind |-> kind, index |-> index, clo |-> clo]

\* the smallest request number not in use
FreshRid(s) ==
  LET used == {r.rid : r \in s.inflight} IN
  CHOOSE n \in 1..(Cardinality(used) + 1) :
    n \notin used /\ \A m \in 1..(n - 1) : m \in used

\* the response the service gives to request r when it reports usage u
ResultOf(r, u) ==
  ScanChapterForNuggets(RawResponse(ChapterText(r.clo.book, r.index)), u, r.index,
                        ChapterLocation(r.clo.book, r.index),
                        r.clo.analyzeBackMatter, r.clo.analyzeBoilerplate,
                        r.clo.selectedNuggetTypes)

\* what the call of request r gives when the response text is malformed and
\* the response reports usage u
MalformedResultOf(r, text, u) ==
  ScanMalformed(text, u, r.index, ChapterLocation(r.clo.book, r.index),
                r.clo.analyzeBackMatter, r.clo.analyzeBoilerplate,
                r.clo.selectedNuggetTypes)

\* ------------------------------------------------------------- prefetchNext
\* prefetchNext's guard without the test of the busy flag
PrefetchSkipsIgnoringBusy(s, clo, index) ==
  \/ clo.book = Null
  \/ index >= BookLength(clo.book)
  \/ MapHas(s.cachedChapters, index)

\* the guard of prefetchNext: TRUE when the call returns at once
PrefetchSkips(s, clo, index) ==
  \/ clo.book = Null
  \/ index >= BookLength(clo.book)
  \/ MapHas(s.cachedChapters, index)
  \/ s.isPrefetching

\* prefetchNext up to its await
prefetchNext(s, clo, index) ==
  IF PrefetchSkips(s, clo, index) THEN s
  ELSE [s EXCEPT !.isPrefetching = TRUE,
                 !.inflight = @ \cup {Request(FreshRid(s), "prefetch", index, clo)}]

\* prefetchNext after its await resolved, when the result is not stored
prefetchResolvedNoStore(s, r, result) ==
  [s EXCEPT !.stats = AddUsage(@, result.usage),
            !.isPrefetching = FALSE,
            !.inflight = @ \ {r}]

\* prefetchNext after its await resolved
prefetchResolved(s, r, result) ==
  [s EXCEPT !.cachedChapters = MapSet(@, r.index, result.data),
            !.stats = AddUsage(@, result.usage),
            !.isPrefetching = FALSE,
            !.inflight = @ \ {r}]

\* prefetchNext after its await rejected
prefetchRejected(s, r) ==
  [s EXCEPT !.isPrefetching = FALSE, !.inflight = @ \ {r}]

\* ------------------------------------------------------------ analyzeChapter
\* a pending setTimeout(() => prefetchNext(index), 500)
Timer(index, clo) == [index |-> index, clo |-> clo]

\* analyzeChapter up to its await
analyzeChapter(s, clo, index) ==
  IF clo.book = Null THEN s
  ELSE IF MapHas(s.cachedChapters, index)
  THEN [s EXCEPT !.currentChapterData = MapGet(s.cachedChapters, index),
                 !.timers = Append(@, Timer(index + 1, clo))]
  ELSE [s EXCEPT !.isAnalyzing = TRUE,
                 !.error = NoError,
                 !.inflight = @ \cup {Request(FreshRid(s), "direct", index, clo)}]

\* analyzeChapter after its await resolved
analyzeResolved(s, r, result) ==
  [s EXCEPT !.currentChapterData = result.data,
            !.cachedChapters = MapSet(@, r.index, result.data),
            !.stats = AddUsage(@, result.usage),
            !.timers = Append(@, Timer(r.index + 1, r.clo)),
            !.isAnalyzing = FALSE,
            !.inflight = @ \ {r}]

\* analyzeChapter after its await rejected
analyzeRejected(s, r) ==
  [s EXCEPT !.error = AnalysisFailedMsg,
            !.isAnalyzing = FALSE,
            !.inflight = @ \ {r}]

\* ------------------------------------------------------------ the effects
\* JSON.stringify of a snapshot: the text holds the index, the statistics
\* and the notes, each note without the properties whose value is undefined
\* (of the properties of a note only source is ever undefined)
JsonNote(n) ==
  IF "source" \in DOMAIN n /\ n.source = "undefined"
  THEN [k \in (DOMAIN n) \ {"source"} |-> n[k]]
  ELSE n

JsonStringify(v) ==
  [json |-> [chapterIndex |-> v.chapterIndex,
             notes |-> [i \in 1..Len(v.notes) |-> JsonNote(v.notes[i])],
             stats |-> v.stats]]

\* JSON.parse of a text that JSON.stringify wrote
JsonParse(text) == text.json

\* a save effect that leaves the notes and the statistics out of its
\* dependencies
SaveEffectOnIndexOnly(p, c, bookChanged) ==
  LET key == StorageKey(c.book)
      doSave == /\ \/ bookChanged \/ StorageKey(p.book) # key
                   \/ c.currentChapterIndex # p.currentChapterIndex
                /\ key # "null" /\ c.book # Null
  IN IF doSave
     THEN [c EXCEPT !.localStorage[key] =
              JsonStringify([chapterIndex |-> c.currentChapterIndex,
                             notes |-> c.notes, stats |-> c.stats])]
     ELSE c

\* useEffect(save snapshot, [currentChapterIndex, notes, stats, storageKey,
\* book]) in the render of state c that follows the render of state p
SaveEffect(p, c, bookChanged) ==
  LET key == StorageKey(c.book)
      doSave == /\ \/ bookChanged \/ StorageKey(p.book) # key
                   \/ c.currentChapterIndex # p.currentChapterIndex
                   \/ c.notes # p.notes \/ c.stats # p.stats
                /\ key # "null" /\ c.book # Null
  IN IF doSave
     THEN [c EXCEPT !.localStorage[key] =
              JsonStringify([chapterIndex |-> c.currentChapterIndex,
                             notes |-> c.notes, stats |-> c.stats])]
     ELSE c

\* one pass of the effects after a render: p holds the values of the
\* previous render, c those of this render.  The effects run in the order
\* of their declaration; the state updates they request (the snapshot that
\* is loaded) take effect together after the pass.
EffectsPass(p, c, bookChanged) ==
  LET key == StorageKey(c.book)
      keyChanged == StorageKey(p.book) # key
      indexChanged == c.currentChapterIndex # p.currentChapterIndex
      \* useEffect(load snapshot, [storageKey])
      saved == IF key = "null" THEN Null ELSE c.localStorage[key]
      doLoad == keyChanged /\ key # "null" /\ saved # Null
      parsed == JsonParse(saved)
      s1 == SaveEffect(p, c, bookChanged)
      \* useEffect(analyze, [book, currentChapterIndex, analyzeChapter])
      doAnalyze == /\ bookChanged \/ indexChanged \/ Closure(c) # Closure(p)
                   /\ c.book # Null /\ ~c.isAnalyzing
      s2 == IF doAnalyze
            THEN analyzeChapter(s1, Closure(c), c.currentChapterIndex)
            ELSE s1
  IN IF doLoad
     THEN [s2 EXCEPT !.currentChapterIndex = parsed.chapterIndex,
                     !.notes = parsed.notes,
                     !.stats = parsed.stats]
     ELSE s2

\* a single render after a handler, without the render that the state
\* updates of the effects bring about
RenderOnce(p, n, bookChanged) == EffectsPass(p, n, bookChanged)

\* the renders that follow a handler: p is the state the handler started
\* from, n the state it requested.  A second pass runs the effects whose
\* dependencies the first pass changed.
Render(p, n, bookChanged) ==
  LET s1 == EffectsPass(p, n, bookChanged) IN EffectsPass(n, s1, FALSE)

\* ------------------------------------------------------ the event handlers
\* handleFileUpload up to its await
handleFileUpload(s, file) ==
  [s EXCEPT !.isProcessing = TRUE,
            !.error = NoError,
            !.cachedChapters = EmptyMap,
            !.parsing = file]

\* handleFileUpload after the parser resolved
uploadResolved(s) ==
  [s EXCEPT !.book = ParseBook(s.parsing),
            !.currentChapterIndex = 0,
            !.isProcessing = FALSE,
            !.parsing = "none"]

\* a rejected upload that leaves a document without segments behind
uploadRejectedPartial(s) ==
  [s EXCEPT !.book = [title |-> s.parsing, chapters |-> EmptyMap, chapterLocations |-> EmptyMap],
            !.error = ParseErrorMsg,
            !.isProcessing = FALSE,
            !.parsing = "none"]

\* handleFileUpload after the parser rejected
uploadRejected(s) ==
  [s EXCEPT !.error = ParseErrorMsg,
            !.isProcessing = FALSE,
            !.parsing = "none"]

jumpToChapter(s, index) == [s EXCEPT !.currentChapterIndex = index]

toggleNuggetTypePreference(s, type) ==
  LET next == IF type \in s.selectedNuggetTypes
              THEN s.selectedNuggetTypes \ {type}
              ELSE s.selectedNuggetTypes \cup {type}
      cleared == [s EXCEPT !.selectedNuggetTypes = next,
                           !.cachedChapters = EmptyMap]
  IN analyzeChapter(cleared, Closure(s), s.currentChapterIndex)

\* the Metadata switch, if it emptied the ledger as well
toggleBoilerplateDroppingNotes(s) ==
  [s EXCEPT !.analyzeBoilerplate = ~s.analyzeBoilerplate,
            !.cachedChapters = EmptyMap,
            !.notes = << >>]

\* onClick of the Metadata switch
toggleBoilerplate(s) ==
  [s EXCEPT !.analyzeBoilerplate = ~s.analyzeBoilerplate,
            !.cachedChapters = EmptyMap]

\* onClick of the Back-Matter switch
toggleBackMatter(s) ==
  [s EXCEPT !.analyzeBackMatter = ~s.analyzeBackMatter,
            !.cachedChapters = EmptyMap]

reset(s) ==
  [s EXCEPT !.book = Null,
            !.notes = << >>,
            !.currentChapterIndex = 0,
            !.currentChapterData = Null,
            !.cachedChapters = EmptyMap,
            !.stats = ZeroStats]

\* downloadNotes: nothing happens with an empty ledger; otherwise the file
\* is offered for download, and when the user confirms "export and close"
\* the snapshot of the document is removed and the session reset
downloadNotes(s, confirmed) ==
  IF s.notes = << >> \/ ~confirmed THEN s
  ELSE LET key == StorageKey(s.book) IN
       reset(IF key = "null" THEN s ELSE [s EXCEPT !.localStorage[key] = Null])

\* ------------------------------------------------------ the selection ledger
\* obj.name, or dflt when the property is undefined
Prop(obj, name, dflt) == IF name \in DOMAIN obj THEN obj[name] ELSE dflt

\* the comparator of the sort in toggleNote
NoteBefore(a, b) ==
  IF a.chapterIndex # b.chapterIndex
  THEN a.chapterIndex < b.chapterIndex
  ELSE a.sortIndex < b.sortIndex

\* x put at the end of seq, as without the sort
InsertNoteAtEnd(seq, x) == Append(seq, x)

\* x inserted into the sorted sequence seq behind every element that is
\* not after it
InsertNote(seq, x) ==
  LET k == Cardinality({i \in 1..Len(seq) : ~NoteBefore(x, seq[i])})
  IN SubSeq(seq, 1, k) \o <<x>> \o SubSeq(seq, k + 1, Len(seq))

RECURSIVE SortNotes(_)
\* Array.prototype.sort with that comparator (a stable sort)
SortNotes(seq) ==
  IF seq = << >> THEN << >>
  ELSE InsertNote(SortNotes(SubSeq(seq, 1, Len(seq) - 1)), seq[Len(seq)])

\* toggleNote without the test for a note that is there already
toggleNoteAlwaysAdds(s, nugget) ==
  LET newNote ==
             [id |-> nugget.id,
              content |-> nugget.content,
              type |-> nugget.type,
              chapterTitle |-> IF s.currentChapterData # Null
                               THEN s.currentChapterData.title
                               ELSE <<"Section", s.currentChapterIndex + 1>>,
              chapterIndex |-> s.currentChapterIndex,
              sortIndex |-> nugget.sortIndex,
              locationLabel |-> Prop(nugget, "locationLabel", "undefined"),
              tags |-> Prop(nugget, "tags", << >>),
              source |-> Prop(nugget, "source", "undefined")]
       IN [s EXCEPT !.notes = SortNotes(Append(s.notes, newNote))]

toggleNote(s, nugget) ==
  IF \E i \in 1..Len(s.notes) : s.notes[i].id = nugget.id
  THEN LET Other(n) == n.id # nugget.id
       IN [s EXCEPT !.notes = SelectSeq(s.notes, Other)]
  ELSE LET newNote ==
             [id |-> nugget.id,
              content |-> nugget.content,
              type |-> nugget.type,
              chapterTitle |-> IF s.currentChapterData # Null
                               THEN s.currentChapterData.title
                               ELSE <<"Section", s.currentChapterIndex + 1>>,
              chapterIndex |-> s.currentChapterIndex,
              sortIndex |-> nugget.sortIndex,
              locationLabel |-> Prop(nugget, "locationLabel", "undefined"),
              tags |-> Prop(nugget, "tags", << >>),
              source |-> Prop(nugget, "source", "undefined")]
       IN [s EXCEPT !.notes = SortNotes(Append(s.notes, newNote))]

\* --------------------------------------------------------------- the tags
\* nugget.tags || []
Tags(x) == Prop(x, "tags", << >>)

\* { ...x, tags }
WithTags(x, tags) ==
  [f \in (DOMAIN x) \cup {"tags"} |-> IF f = "tags" THEN tags ELSE x[f]]

\* Array.prototype.includes
Includes(seq, x) == \E i \in 1..Len(seq) : seq[i] = x

updateNuggetTags(s, nuggetId, tags) ==
  LET Retag(seq) == [i \in 1..Len(seq) |->
                       IF seq[i].id = nuggetId THEN WithTags(seq[i], tags) ELSE seq[i]]
      d == s.currentChapterData
      s1 == IF d # Null
            THEN [s EXCEPT !.currentChapterData = [d EXCEPT !.nuggets = Retag(d.nuggets)]]
            ELSE s
  IN [s1 EXCEPT !.notes = Retag(s.notes)]

RECURSIVE TrimStart(_)
TrimStart(str) ==
  IF str # << >> /\ Head(str) = SPACE THEN TrimStart(Tail(str)) ELSE str

RECURSIVE TrimEnd(_)
TrimEnd(str) ==
  IF str # << >> /\ str[Len(str)] = SPACE
  THEN TrimEnd(SubSeq(str, 1, Len(str) - 1)) ELSE str

\* String.prototype.trim
trim(str) == TrimEnd(TrimStart(str))

\* str.replace(/^#/, '')
replaceLeadingHash(str) ==
  IF str # << >> /\ Head(str) = HASH THEN Tail(str) ELSE str

\* currentChapterData?.nuggets.find(n => n.id === nuggetId)
\*   || notes.find(n => n.id === nuggetId)
FindNugget(s, nuggetId) ==
  LET d == s.currentChapterData
      cards == IF d = Null THEN {}
               ELSE {i \in 1..Len(d.nuggets) : d.nuggets[i].id = nuggetId}
      sel == {i \in 1..Len(s.notes) : s.notes[i].id = nuggetId}
      First(S) == CHOOSE i \in S : \A j \in S : i <= j
  IN IF cards # {} THEN d.nuggets[First(cards)]
     ELSE IF sel # {} THEN s.notes[First(sel)]
     ELSE Null

\* handleAddTag without the test for a tag that is there already
handleAddTagAlways(s, nuggetId, tagInput) ==
  IF trim(tagInput) = << >> THEN s
  ELSE LET cleanTag == replaceLeadingHash(trim(tagInput))
           nugget == FindNugget(s, nuggetId)
       IN IF nugget = Null THEN s
          ELSE updateNuggetTags(s, nuggetId, Append(Tags(nugget), cleanTag))

handleAddTag(s, nuggetId, tagInput) ==
  IF trim(tagInput) = << >> THEN s
  ELSE LET cleanTag == replaceLeadingHash(trim(tagInput))
           nugget == FindNugget(s, nuggetId)
       IN IF nugget = Null THEN s
          ELSE IF Includes(Tags(nugget), cleanTag) THEN s
          ELSE updateNuggetTags(s, nuggetId, Append(Tags(nugget), cleanTag))

removeTag(s, nuggetId, tagToRemove) ==
  LET nugget == FindNugget(s, nuggetId)
      Other(t) == t # tagToRemove
  IN IF nugget = Null THEN s
     ELSE updateNuggetTags(s, nuggetId, SelectSeq(Tags(nugget), Other))

\* ------------------------------------------------------------ deep search
\* the sortIndex of a pseudo-nugget
SEARCH_SORT_INDEX == 9999

\* Array.prototype.slice(start, end) on the indices of an array, for
\* start and end within the array
Slice(start, end) ==
  [k \in 1..(IF end > start THEN end - start ELSE 0) |-> start + k - 1]

\* a window that ends one segment after the current one
SearchWindowShort(length, index) ==
  LET start == IF index - 2 > 0 THEN index - 2 ELSE 0
      end == IF length < index + 2 THEN length ELSE index + 2
  IN Slice(start, end)

\* the indices of the segments handleSearch sends, in the order it sends
\* them: book.chapters.slice(start, end)
SearchWindow(length, index) ==
  LET start == IF index - 2 > 0 THEN index - 2 ELSE 0
      end == IF length < index + 3 THEN length ELSE index + 3
  IN Slice(start, end)

\* handleSearch up to its await: the call holds the segments it sends and
\* what the toggleNote of this render has captured
handleSearch(s, query) ==
  IF trim(query) = << >> \/ s.book = Null THEN s
  ELSE [s EXCEPT !.isSearching = TRUE,
                 !.searchCall = [query |-> query,
                                 chunksToSearch |->
                                   SearchWindow(BookLength(s.book), s.currentChapterIndex),
                                 notes |-> s.notes,
                                 currentChapterData |-> s.currentChapterData,
                                 currentChapterIndex |-> s.currentChapterIndex]]

\* a search result that is inserted as the first nugget of its segment
searchFoundAsFirst(s, result, now) ==
  LET c == s.searchCall
      nugget == [id |-> <<"search", now>>,
                 content |-> result.content,
                 type |-> result.type,
                 source |-> result.source,
                 sortIndex |-> 0,
                 locationLabel |-> "Deep Search Discovery"]
      then == [s EXCEPT !.notes = c.notes,
                        !.currentChapterData = c.currentChapterData,
                        !.currentChapterIndex = c.currentChapterIndex]
  IN [s EXCEPT !.notes = toggleNote(then, nugget).notes,
               !.isSearching = FALSE,
               !.searchCall = Null]

\* handleSearch after recallSearch found something, at time now
searchFound(s, result, now) ==
  LET c == s.searchCall
      nugget == [id |-> <<"search", now>>,
                 content |-> result.content,
                 type |-> result.type,
                 source |-> result.source,
                 sortIndex |-> SEARCH_SORT_INDEX,
                 locationLabel |-> "Deep Search Discovery"]
      then == [s EXCEPT !.notes = c.notes,
                        !.currentChapterData = c.currentChapterData,
                        !.currentChapterIndex = c.currentChapterIndex]
  IN [s EXCEPT !.notes = toggleNote(then, nugget).notes,
               !.isSearching = FALSE,
               !.searchCall = Null]

\* a search that ends without its finally block
searchEndedKeepsFlag(s) == [s EXCEPT !.searchCall = Null]

\* handleSearch after recallSearch found nothing, or threw
searchEnded(s) == [s EXCEPT !.isSearching = FALSE, !.searchCall = Null]

\* a snapshot an earlier session on the document has left in the storage:
\* the reader had the Metadata switch on and the first two segments
\* analysed, the first nugget of each selected and the first one tagged,
\* and was at the second one
EarlierSnapshot(file) ==
  LET b == ParseBook(file)
      u == CHOOSE x \in Usages : TRUE
      Data(i) == ScanChapterForNuggets(RawResponse(b.chapters[i]), u, i,
                                       b.chapterLocations[i], FALSE, TRUE, NuggetType).data
      s0 == [notes |-> << >>, currentChapterData |-> Data(0), currentChapterIndex |-> 0]
      s1 == [notes |-> toggleNote(s0, Data(0).nuggets[1]).notes,
             currentChapterData |-> Data(1), currentChapterIndex |-> 1]
      s2 == [notes |-> toggleNote(s1, Data(1).nuggets[1]).notes,
             currentChapterData |-> Data(0), currentChapterIndex |-> 1]
  IN [chapterIndex |-> 1,
      notes |-> handleAddTag(s2, Data(0).nuggets[1].id, <<"a">>).notes,
      stats |-> AddUsage(AddUsage(ZeroStats, u), u)]

\* ------------------------------------------------------------------ actions
\* the state after construction, over the content of the browser's storage
ProgramStart(storage) ==
  /\ book = Null
  /\ currentChapterIndex = 0
  /\ currentChapterData = Null
  /\ notes = << >>
  /\ isProcessing = FALSE
  /\ isAnalyzing = FALSE
  /\ error = NoError
  /\ stats = ZeroStats
  /\ analyzeBackMatter = FALSE
  /\ analyzeBoilerplate = FALSE
  /\ selectedNuggetTypes = NuggetType
  /\ cachedChapters = EmptyMap
  /\ isPrefetching = FALSE
  /\ localStorage = storage
  /\ inflight = {}
  /\ timers = << >>
  /\ parsing = "none"
  /\ isSearching = FALSE
  /\ searchCall = Null
  /\ ledgerActs = 0
  /\ billed = ZeroStats
  /\ stale = {}
  /\ acts = 0
  /\ last = [op |-> "Init", index |-> -1, outcome |-> "", arg |-> NoArg]
  /\ armed = -1
  /\ armedIdle = -1
  /\ inForce = EmptyMap

\* the state after construction, in a browser whose storage holds nothing
\* or the snapshots of earlier sessions on some of the files
ProgramInit ==
  \E keep \in SUBSET Files :
     ProgramStart([k \in StorageKeys |->
                     IF k \in keep THEN JsonStringify(EarlierSnapshot(k)) ELSE Null])

Init == ProgramInit /\ applied = Null

DirectInFlight == {r \in inflight : r.kind = "direct"}
PrefetchInFlight == {r \in inflight : r.kind = "prefetch"}

\* the names of the user events
UserOps == {"UploadFile", "JumpTo", "StepChapter", "ToggleType",
            "ToggleBoilerplate", "ToggleBackMatter", "Reset", "ToggleCard",
            "RemoveNote", "AddTag", "RemoveTag", "Search", "ExportAndClose",
            "ExportOnly"}

\* the user events that end in reset()
ResetOps == {"Reset", "ExportAndClose"}

\* the user events on cards, notes, tags and the search
LedgerOps == {"ToggleCard", "RemoveNote", "AddTag", "RemoveTag", "Search"}

\* the events that end what a display has scheduled: a filter change, the
\* closing of the document and the opening of another one
DisarmOps == {"ToggleType", "ToggleBoilerplate", "ToggleBackMatter", "Reset",
              "UploadFile", "UploadDone", "ExportAndClose"}

\* the history variable armed after action op led to state s:
\*  - a display arms the index behind the displayed one: a direct response
\*    that arrives, or a cache hit of analyzeChapter (it schedules a timer);
\*  - a filter change and a change of document disarm it, and so do a failure
\*    of the prefetch of that index and the firing of the scheduled timer
\*    while another prefetch is busy.
ArmedAfter(op, index, outcome, s) ==
  IF op = "DirectOk" THEN index + 1
  ELSE IF op \in UserOps /\ Len(s.timers) > Len(timers)
  THEN s.timers[Len(s.timers)].index
  ELSE IF op \in DisarmOps THEN -1
  ELSE IF op = "TimerFires" /\ outcome = "busy" /\ index = armed /\ Len(timers) = 1
  THEN -1
  ELSE IF op = "PrefetchFail" /\ index = armed THEN -1
  ELSE armed

\* the history variable armedIdle after action op led to state s: as armed,
\* but only a display that finds no prefetch busy arms it, and the firing
\* of its timer leaves it.
ArmedIdleAfter(op, index, outcome, s) ==
  IF op = "DirectOk" THEN (IF isPrefetching THEN -1 ELSE index + 1)
  ELSE IF op \in UserOps /\ Len(s.timers) > Len(timers)
  THEN (IF isPrefetching THEN -1 ELSE s.timers[Len(s.timers)].index)
  ELSE IF op \in DisarmOps THEN -1
  ELSE IF op = "PrefetchFail" /\ index = armedIdle THEN -1
  ELSE armedIdle

\* no usage: the usage of a step that is no answer of the service
NoUsage == [input |-> 0, output |-> 0]

\* the history variable stale after action op to state s
StaleAfter(op, s) == IF op \in ResetOps THEN s.inflight ELSE stale \cap s.inflight

\* the history variable billed after action op to state s: the session
\* starts with what the stored snapshot of the document holds (with zero if
\* there is none), every answer to a call of the session adds the tokens it
\* reports and their price (75 and 300 per token, in units of 1e-9 dollars),
\* and the reset ends the session
BilledAfter(op, usage, s) ==
  LET saved == localStorage[StorageKey(ParseBook(parsing))]
      answered == inflight \ s.inflight
  IN IF op \in {"DirectOk", "PrefetchOk"} /\ answered \cap stale = {}
     THEN [totalInputTokens |-> billed.totalInputTokens + usage.input,
           totalOutputTokens |-> billed.totalOutputTokens + usage.output,
           estimatedCost |-> billed.estimatedCost + usage.input * 75 + usage.output * 300]
     ELSE IF op \in ResetOps THEN ZeroStats
     ELSE IF op = "UploadDone" /\ saved # Null THEN JsonParse(saved).stats
     ELSE billed

\* the history variable inForce after a step to state s: a call the step
\* issues is issued under the nugget types that s holds
InForceAfter(s) ==
  [r \in s.inflight |-> IF r \in inflight THEN inForce[r] ELSE s.selectedNuggetTypes]

\* a step of the program to state s
StepFull(op, index, outcome, arg, usage, s) ==
  /\ Commit(s)
  /\ last' = [op |-> op, index |-> index, outcome |-> outcome, arg |-> arg]
  /\ armed' = ArmedAfter(op, index, outcome, s)
  /\ armedIdle' = ArmedIdleAfter(op, index, outcome, s)
  /\ acts' = IF op \in UserOps THEN acts + 1 ELSE acts
  /\ ledgerActs' = IF op \in LedgerOps THEN ledgerActs + 1 ELSE ledgerActs
  /\ billed' = BilledAfter(op, usage, s)
  /\ stale' = StaleAfter(op, s)
  /\ inForce' = InForceAfter(s)
  /\ applied' = applied

StepWith(op, index, outcome, s) == StepFull(op, index, outcome, NoArg, NoUsage, s)

Step(op, index, s) == StepWith(op, index, "", s)

\* there is a user event left
UserEvent == acts < MaxUserActions

\* there is a user event on cards, notes, tags or the search left
LedgerEvent == UserEvent /\ ledgerActs < MaxLedgerActions

\* the user picks a file in the upload input (shown while no book is open)
UploadFile ==
  \E file \in Files :
    /\ book = Null /\ ~isProcessing
    /\ Step("UploadFile", -1, Render(Cur, handleFileUpload(Cur, file), FALSE))

\* the parser returns the segments of the file
UploadDone ==
  /\ parsing # "none"
  /\ Step("UploadDone", -1, Render(Cur, uploadResolved(Cur), TRUE))

\* the parser throws, or the file is neither PDF nor EPUB
UploadFail ==
  /\ parsing # "none"
  /\ Step("UploadFail", -1, Render(Cur, uploadRejected(Cur), FALSE))

\* the slider or a button of the book map
JumpTo ==
  \E index \in 0..(NumSegs - 1) :
    /\ book # Null /\ index < BookLength(book)
    /\ index # currentChapterIndex
    /\ Step("JumpTo", index, Render(Cur, jumpToChapter(Cur, index), FALSE))

\* the previous / next buttons, disabled while analyzing
StepChapter ==
  \E d \in {-1, 1} :
    /\ book # Null /\ ~isAnalyzing
    /\ currentChapterIndex # (IF d = -1 THEN 0 ELSE BookLength(book) - 1)
    /\ LET index == IF d = -1 THEN Max(0, currentChapterIndex - 1)
                     ELSE Min(BookLength(book) - 1, currentChapterIndex + 1)
       IN Step("StepChapter", index, Render(Cur, jumpToChapter(Cur, index), FALSE))

\* a nugget type button (shown with and without a book)
ToggleType ==
  \E type \in ToggleTypes :
    /\ Step("ToggleType", currentChapterIndex, Render(Cur, toggleNuggetTypePreference(Cur, type), FALSE))

\* the Metadata switch
ToggleBoilerplate ==
  /\ book # Null
  /\ Step("ToggleBoilerplate", currentChapterIndex, Render(Cur, toggleBoilerplate(Cur), FALSE))

\* the Back-Matter switch
ToggleBackMatter ==
  /\ book # Null
  /\ Step("ToggleBackMatter", currentChapterIndex, Render(Cur, toggleBackMatter(Cur), FALSE))

\* the Close Book button
Reset ==
  /\ book # Null
  /\ Step("Reset", -1, Render(Cur, reset(Cur), TRUE))

\* the EXPORT .MD button of the collection, shown while the ledger holds a
\* note, with the confirmation dialog answered yes
ExportAndClose ==
  /\ book # Null
  /\ notes # << >>
  /\ Step("ExportAndClose", -1, Render(Cur, downloadNotes(Cur, TRUE), TRUE))

\* the EXPORT .MD button with the confirmation dialog answered no
ExportOnly ==
  /\ book # Null
  /\ notes # << >>
  /\ Step("ExportOnly", -1, Render(Cur, downloadNotes(Cur, FALSE), FALSE))

\* the plus / check button of a displayed nugget card
ToggleCard ==
  /\ book # Null /\ ~isAnalyzing /\ currentChapterData # Null
  /\ \E i \in 1..Len(currentChapterData.nuggets) :
        StepFull("ToggleCard", currentChapterIndex, "",
             [id |-> currentChapterData.nuggets[i].id, text |-> << >>], NoUsage,
             Render(Cur, toggleNote(Cur, currentChapterData.nuggets[i]), FALSE))

\* the remove button of a note in the collection sidebar
RemoveNote ==
  /\ book # Null
  /\ \E i \in 1..Len(notes) :
        StepFull("RemoveNote", -1, "", [id |-> notes[i].id, text |-> << >>], NoUsage,
             Render(Cur, toggleNote(Cur,
                [id |-> notes[i].id, content |-> notes[i].content,
                 type |-> notes[i].type, sortIndex |-> notes[i].sortIndex]), FALSE))

\* the plus button of the tag input of a displayed card, or Enter in it
AddTag ==
  /\ book # Null /\ ~isAnalyzing /\ currentChapterData # Null
  /\ \E i \in TaggedCards \cap (1..Len(currentChapterData.nuggets)), input \in TagInputs :
        StepFull("AddTag", currentChapterIndex, "",
             [id |-> currentChapterData.nuggets[i].id, text |-> input], NoUsage,
             Render(Cur, handleAddTag(Cur, currentChapterData.nuggets[i].id, input), FALSE))

\* the cross of a tag shown on a displayed card
RemoveTag ==
  /\ book # Null /\ ~isAnalyzing /\ currentChapterData # Null
  /\ \E i \in TaggedCards \cap (1..Len(currentChapterData.nuggets)) :
       \E k \in 1..Len(Tags(currentChapterData.nuggets[i])) :
        LET tag == Tags(currentChapterData.nuggets[i])[k] IN
        StepFull("RemoveTag", currentChapterIndex, "",
             [id |-> currentChapterData.nuggets[i].id, text |-> tag], NoUsage,
             Render(Cur, removeTag(Cur, currentChapterData.nuggets[i].id, tag), FALSE))

\* the context search is submitted (its button is disabled while searching)
Search ==
  /\ book # Null /\ ~isSearching
  /\ \E query \in SearchQueries :
        Step("Search", currentChapterIndex, Render(Cur, handleSearch(Cur, query), FALSE))

\* recallSearch finds a passage; Date.now() is the number of user events so
\* far: a search is started by a user event after the one before has ended
SearchOk ==
  /\ searchCall # Null
  /\ \E result \in SearchResults :
        Step("SearchOk", searchCall.currentChapterIndex,
             Render(Cur, searchFound(Cur, result, acts), FALSE))

\* recallSearch finds nothing
SearchNone ==
  /\ searchCall # Null
  /\ Step("SearchNone", searchCall.currentChapterIndex, Render(Cur, searchEnded(Cur), FALSE))

\* recallSearch throws
SearchFail ==
  /\ searchCall # Null
  /\ Step("SearchFail", searchCall.currentChapterIndex, Render(Cur, searchEnded(Cur), FALSE))

\* why prefetchNext(index) returns at once, or "issued"
PrefetchOutcome(s, clo, index) ==
  IF clo.book = Null \/ index >= BookLength(clo.book) THEN "range"
  ELSE IF MapHas(s.cachedChapters, index) THEN "cached"
  ELSE IF s.isPrefetching THEN "busy"
  ELSE "issued"

\* the oldest pending timer fires and calls prefetchNext
TimerFires ==
  /\ timers # << >>
  /\ LET t == Head(timers) IN
     StepWith("TimerFires", t.index, PrefetchOutcome(Cur, t.clo, t.index),
          prefetchNext([Cur EXCEPT !.timers = Tail(@)], t.clo, t.index))

\* the service answers a direct extraction call
DirectOk ==
  \E r \in DirectInFlight, u \in Usages :
    StepFull("DirectOk", r.index, "", NoArg, u,
             Render(Cur, analyzeResolved(Cur, r, ResultOf(r, u)), FALSE))

\* a direct extraction call fails
DirectFail ==
  \E r \in DirectInFlight :
    Step("DirectFail", r.index, Render(Cur, analyzeRejected(Cur, r), FALSE))

\* the service answers a prefetch call
PrefetchOk ==
  \E r \in PrefetchInFlight, u \in Usages :
    StepFull("PrefetchOk", r.index, "", NoArg, u,
             Render(Cur, prefetchResolved(Cur, r, ResultOf(r, u)), FALSE))

\* a direct extraction call is answered by a text that is no structured
\* answer
DirectMalformed ==
  \E r \in DirectInFlight, text \in MalformedTexts, u \in Usages :
    LET result == MalformedResultOf(r, text, u) IN
    IF result = Thrown
    THEN StepWith("DirectFail", r.index, text.kind, Render(Cur, analyzeRejected(Cur, r), FALSE))
    ELSE StepFull("DirectOk", r.index, text.kind, NoArg, result.usage,
                  Render(Cur, analyzeResolved(Cur, r, result), FALSE))

\* a prefetch call is answered by a text that is no structured answer
PrefetchMalformed ==
  \E r \in PrefetchInFlight, text \in MalformedTexts, u \in Usages :
    LET result == MalformedResultOf(r, text, u) IN
    IF result = Thrown
    THEN StepWith("PrefetchFail", r.index, text.kind, Render(Cur, prefetchRejected(Cur, r), FALSE))
    ELSE StepFull("PrefetchOk", r.index, text.kind, NoArg, result.usage,
                  Render(Cur, prefetchResolved(Cur, r, result), FALSE))

\* a prefetch call fails
PrefetchFail ==
  \E r \in PrefetchInFlight :
    Step("PrefetchFail", r.index, Render(Cur, prefetchRejected(Cur, r), FALSE))

Next ==
  \/ UserEvent /\ UploadFile
  \/ UserEvent /\ JumpTo
  \/ UserEvent /\ StepChapter
  \/ UserEvent /\ ToggleType
  \/ UserEvent /\ ToggleBoilerplate
  \/ UserEvent /\ ToggleBackMatter
  \/ UserEvent /\ Reset
  \/ UserEvent /\ ExportAndClose
  \/ UserEvent /\ ExportOnly
  \/ LedgerEvent /\ ToggleCard
  \/ LedgerEvent /\ RemoveNote
  \/ LedgerEvent /\ AddTag
  \/ LedgerEvent /\ RemoveTag
  \/ LedgerEvent /\ Search
  \/ UploadDone
  \/ UploadFail
  \/ TimerFires
  \/ DirectOk
  \/ DirectFail
  \/ PrefetchOk
  \/ PrefetchFail
  \/ SearchOk
  \/ SearchNone
  \/ SearchFail

Spec == Init /\ [][Next]_vars

\* the program with the answers of the service that are no structured
\* answer told apart from the calls that fail: such an answer makes the
\* service throw, so it takes the program where DirectFail and PrefetchFail
\* of Next take it, and differs from them in the outcome that last records
NextMalformed ==
  \/ UserEvent /\ UploadFile
  \/ UserEvent /\ JumpTo
  \/ UserEvent /\ StepChapter
  \/ UserEvent /\ ToggleType
  \/ UserEvent /\ ToggleBoilerplate
  \/ UserEvent /\ ToggleBackMatter
  \/ UserEvent /\ Reset
  \/ UserEvent /\ ExportAndClose
  \/ UserEvent /\ ExportOnly
  \/ LedgerEvent /\ ToggleCard
  \/ LedgerEvent /\ RemoveNote
  \/ LedgerEvent /\ AddTag
  \/ LedgerEvent /\ RemoveTag
  \/ LedgerEvent /\ Search
  \/ UploadDone
  \/ UploadFail
  \/ TimerFires
  \/ DirectOk
  \/ DirectFail
  \/ PrefetchOk
  \/ PrefetchFail
  \/ DirectMalformed
  \/ PrefetchMalformed
  \/ SearchOk
  \/ SearchNone
  \/ SearchFail

SpecMalformed == Init /\ [][NextMalformed]_vars

\* the program when the parser, the extraction service and the search never
\* fail
NextOk ==
  \/ UserEvent /\ UploadFile
  \/ UserEvent /\ JumpTo
  \/ UserEvent /\ StepChapter
  \/ UserEvent /\ ToggleType
  \/ UserEvent /\ ToggleBoilerplate
  \/ UserEvent /\ ToggleBackMatter
  \/ UserEvent /\ Reset
  \/ UserEvent /\ ExportAndClose
  \/ UserEvent /\ ExportOnly
  \/ LedgerEvent /\ ToggleCard
  \/ LedgerEvent /\ RemoveNote
  \/ LedgerEvent /\ AddTag
  \/ LedgerEvent /\ RemoveTag
  \/ LedgerEvent /\ Search
  \/ UploadDone
  \/ TimerFires
  \/ DirectOk
  \/ PrefetchOk
  \/ SearchOk
  \/ SearchNone

SpecOk == Init /\ [][NextOk]_vars

\* ================================================================ properties
\* the displayed analysis is the analysis of segment i
IsAnalysisOf(data, i) ==
  data # Null /\ data.title = RawResponse(<<"text", i>>).title

Displays(i) == IsAnalysisOf(currentChapterData, i)

\* nothing is pending: no call in flight, no timer, no parser
Quiescent ==
  inflight = {} /\ timers = << >> /\ parsing = "none" /\ searchCall = Null

NavOps == {"JumpTo", "StepChapter"}
FilterOps == {"ToggleType", "ToggleBoilerplate", "ToggleBackMatter"}

\* the calls the step issues
Issued == inflight' \ inflight

\* C1: a direct response for index i is always stored in the cache under i,
\* and replaces the displayed analysis only if the current index is still i.
C1_StaleResponseNotDisplayed ==
  [][last'.op = "DirectOk" =>
       /\ MapHas(cachedChapters', last'.index)
       /\ currentChapterIndex # last'.index =>
            currentChapterData' = currentChapterData]_vars

\* C2: when every call succeeds and nothing is pending any more, no direct
\* fetch is in flight and the displayed analysis is that of the current index.
C2_SettlesOnCurrentSegment ==
  (Quiescent /\ book # Null) =>
     (DirectInFlight = {} /\ Displays(currentChapterIndex))

\* C3: at most one extraction request is in flight for any segment index.
C3_OneRequestPerIndex ==
  \A r1 \in inflight, r2 \in inflight : r1.index = r2.index => r1 = r2

\* C4: a navigation to an index that is in the cache displays the cached
\* analysis and issues no extraction request for that index.
C4_NavigationToCachedIndex ==
  [][(last'.op \in NavOps /\ MapHas(cachedChapters, last'.index)) =>
       /\ currentChapterData' = MapGet(cachedChapters, last'.index)
       /\ \A r \in Issued : r.index # last'.index]_vars

\* C5: a filter change with a document loaded leaves the cache empty and the
\* current segment analyzing, with a fresh direct request for the current index.
C5_FilterChangeRefetches ==
  [][(last'.op \in FilterOps /\ book # Null) =>
       /\ cachedChapters' = EmptyMap
       /\ isAnalyzing'
       /\ \E r \in Issued : r.kind = "direct" /\ r.index = currentChapterIndex']_vars

\* C6: a request issued by a filter toggle carries the filter values as they
\* are after the toggle.
C6_RefetchUsesNewFilters ==
  [][last'.op \in FilterOps =>
       \A r \in Issued :
          /\ r.clo.analyzeBackMatter = analyzeBackMatter'
          /\ r.clo.analyzeBoilerplate = analyzeBoilerplate'
          /\ r.clo.selectedNuggetTypes = selectedNuggetTypes']_vars

\* C7: at most one prefetch is in flight, the busy flag is set exactly while
\* it is, and a prefetch request that arrives while the flag is set issues
\* no call and is not queued again.
C7_SinglePrefetch ==
  /\ [](Cardinality(PrefetchInFlight) <= 1)
  /\ [](isPrefetching <=> PrefetchInFlight # {})
  /\ [][(last'.op = "TimerFires" /\ isPrefetching) =>
          (Issued = {} /\ timers' = Tail(timers))]_vars

C7_Witness ==
  /\ last.op = "TimerFires" /\ last.outcome = "busy"
  /\ isPrefetching
  /\ Cardinality(PrefetchInFlight) = 1
  /\ \A r \in PrefetchInFlight : r.index # last.index

\* C8: at most one direct fetch is in flight.
C8_OneDirectFetch == Cardinality(DirectInFlight) <= 1

\* C9: after index i is displayed the prefetch of i+1 is scheduled; when its
\* timer finds no prefetch busy and the call succeeds, i+1 is in the cache
\* once nothing is pending; a navigation to a cached index issues no request.
C9_OneAheadPrefetch ==
  /\ []((armed >= 0 /\ armed < NumSegs /\ timers = << >> /\ PrefetchInFlight = {})
          => MapHas(cachedChapters, armed))
  /\ [][last'.op = "DirectOk" =>
          (/\ Len(timers') = Len(timers) + 1
           /\ timers'[Len(timers')].index = last'.index + 1)]_vars
  /\ [][(last'.op \in NavOps /\ ~isAnalyzing /\ MapHas(cachedChapters, last'.index)) =>
          (/\ IsAnalysisOf(currentChapterData', last'.index)
           /\ Len(timers') = Len(timers) + 1
           /\ timers'[Len(timers')].index = last'.index + 1)]_vars
  /\ [][(last'.op \in NavOps /\ MapHas(cachedChapters, last'.index)) =>
          Issued = {}]_vars

\* C9 as stated, with "no prefetch is busy" taken at the moment of the
\* display: once nothing is pending, the index behind the displayed one is
\* in the cache.
C9_AsStated ==
  (armedIdle >= 0 /\ armedIdle < NumSegs /\ Quiescent)
     => MapHas(cachedChapters, armedIdle)

\* only the upload has happened, and segment 1 is in the cache
C9_Witness ==
  /\ acts = 1 /\ book # Null /\ currentChapterIndex = 0 /\ Displays(0)
  /\ armed = 1 /\ Quiescent /\ last.op = "PrefetchOk"
  /\ MapHas(cachedChapters, 1)

\* C10: a failed direct extraction sets the error, ends the analyzing state,
\* leaves the index out of the cache and usage, ledger and cache as they
\* were; no request for the index follows without a user event.
C10_FailedFetchLeavesState ==
  /\ [][last'.op = "DirectFail" =>
          (/\ error' = AnalysisFailedMsg
           /\ ~isAnalyzing'
           /\ ~MapHas(cachedChapters', last'.index)
           /\ stats' = stats /\ notes' = notes
           /\ cachedChapters' = cachedChapters)]_vars
  /\ [][(last.op = "DirectFail" /\ last'.op \notin UserOps) =>
          \A r \in Issued : r.index # last.index]_vars

\* C11, the failure itself: a failed prefetch leaves error, cache, usage and
\* timers as they were, releases the busy flag and issues no call.
C11_FailedPrefetchIsSilent ==
  [][last'.op = "PrefetchFail" =>
       (/\ error' = error
        /\ cachedChapters' = cachedChapters
        /\ stats' = stats
        /\ ~isPrefetching'
        /\ timers' = timers
        /\ Issued = {})]_vars

\* C11: a failed prefetch of index j surfaces no error, leaves cache and
\* usage as they were, releases the busy flag and is not retried; a
\* navigation to j that follows issues a direct fetch of j.
C11_FailedPrefetch ==
  /\ C11_FailedPrefetchIsSilent
  /\ [][(last.op = "PrefetchFail" /\ last'.op \in NavOps
          /\ last'.index = last.index /\ ~MapHas(cachedChapters, last.index)) =>
          \E r \in Issued : r.kind = "direct" /\ r.index = last.index]_vars

\* C12: while a document is loaded, the usage totals are the sums over the
\* successful calls of the session (on top of what its snapshot restored):
\* input tokens, output tokens, and the cost at 0.075 and 0.30 dollars per
\* million tokens; no call is dropped, counted twice or taken from another
\* session.
C12_TotalsAreSums == book # Null => stats = billed

\* C13: no step lowers a usage total, except the reset, which sets all
\* three to zero.
C13_UsageMonotone ==
  /\ [][last'.op \notin ResetOps =>
          (/\ stats'.totalInputTokens >= stats.totalInputTokens
           /\ stats'.totalOutputTokens >= stats.totalOutputTokens
           /\ stats'.estimatedCost >= stats.estimatedCost)]_vars
  /\ [][last'.op \in ResetOps => stats' = ZeroStats]_vars

\* the ledger after the card of nugget is pressed twice in state s
ToggledTwice(s, nugget) == toggleNote(toggleNote(s, nugget), nugget).notes

\* C14: pressing the card of a displayed nugget twice gives back the ledger
\* as it was: the same notes with the same fields in the same order, whether
\* the nugget was selected before (remove, then add) or not (add, then
\* remove).
C14_ToggleInvolution ==
  (book # Null /\ ~isAnalyzing /\ currentChapterData # Null) =>
     \A i \in 1..Len(currentChapterData.nuggets) :
        ToggledTwice(Cur, currentChapterData.nuggets[i]) = notes

\* the ids of the notes of a ledger
NoteIds(seq) == {seq[k].id : k \in 1..Len(seq)}

\* the ledger seq without the notes of that id
WithoutId(seq, id) == LET Other(n) == n.id # id IN SelectSeq(seq, Other)

\* C15: no two notes of the ledger have the same id; a press on the card or
\* on the ledger entry of an id that is selected removes its note and adds
\* none, for nuggets of a segment and for the notes of the search alike.
C15_NoDuplicateIds ==
  /\ [](\A i \in 1..Len(notes), j \in 1..Len(notes) :
          notes[i].id = notes[j].id => i = j)
  /\ [][(last'.op \in {"ToggleCard", "RemoveNote"} /\ last'.arg.id \in NoteIds(notes)) =>
          notes' = WithoutId(notes, last'.arg.id)]_vars

\* the note of a search has just been removed by its ledger entry, and the
\* ledger still holds the note of a nugget
C15_Witness ==
  /\ last.op = "RemoveNote" /\ last.arg.id[1] = "search"
  /\ last.arg.id \notin NoteIds(notes)
  /\ \E k \in 1..Len(notes) : notes[k].id[1] = "c"

\* note a is not after note b in the order of the ledger
NotAfter(a, b) ==
  \/ a.chapterIndex < b.chapterIndex
  \/ a.chapterIndex = b.chapterIndex /\ a.sortIndex <= b.sortIndex

\* the ids of the notes of seq that are in S, in their order
IdsWithin(seq, S) ==
  LET In(n) == n.id \in S
      sel == SelectSeq(seq, In)
  IN [k \in 1..Len(sel) |-> sel[k].id]

\* the ledger the step works on: the search adds to the ledger of the
\* render it was submitted in
BaseLedger == IF last'.op = "SearchOk" THEN searchCall.notes ELSE notes

\* C16: the ledger is ordered by chapterIndex, then sortIndex; a step keeps
\* the notes that stay in the order they had, and a note that a toggle or a
\* search adds comes behind the notes of the same chapterIndex and sortIndex.
C16_LedgerOrdered ==
  /\ [](\A i \in 1..Len(notes), j \in 1..Len(notes) :
          i < j => NotAfter(notes[i], notes[j]))
  /\ [][IdsWithin(notes', NoteIds(BaseLedger)) = IdsWithin(BaseLedger, NoteIds(notes'))]_vars
  /\ [][last'.op \in {"ToggleCard", "SearchOk"} =>
          \A p \in 1..Len(notes') :
             notes'[p].id \notin NoteIds(BaseLedger) =>
                \A q \in 1..Len(notes') :
                   (NotAfter(notes'[q], notes'[p]) /\ NotAfter(notes'[p], notes'[q])) => q <= p]_vars

\* a second search has added its note: the ledger holds the notes of two
\* nuggets and, behind them, the notes of the two searches with the same
\* chapterIndex and sortIndex, the earlier one first
C16_Witness ==
  /\ last.op = "SearchOk" /\ Len(notes) = 4
  /\ notes[1].id[1] = "c" /\ notes[2].id[1] = "c"
  /\ notes[3].id[1] = "search" /\ notes[4].id[1] = "search"
  /\ notes[3].chapterIndex = notes[4].chapterIndex
  /\ notes[3].sortIndex = SEARCH_SORT_INDEX /\ notes[4].sortIndex = SEARCH_SORT_INDEX
  /\ notes[3].id[2] < notes[4].id[2]

\* C17, the calls: a tag edit issues no extraction call.
C17_TagEditIssuesNoCall ==
  [][last'.op \in {"AddTag", "RemoveTag"} => (Issued = {} /\ timers' = timers)]_vars

\* C17: a nugget of the cache that is selected has the tags of its note, so
\* that a segment displayed again from the cache shows them; and a tag edit
\* issues no extraction call.
C17_TagsInSync ==
  /\ [](\A i \in DOMAIN cachedChapters :
          \A k \in 1..Len(cachedChapters[i].nuggets), n \in 1..Len(notes) :
             cachedChapters[i].nuggets[k].id = notes[n].id =>
                Tags(cachedChapters[i].nuggets[k]) = Tags(notes[n]))
  /\ C17_TagEditIssuesNoCall

\* the text is empty or white space only
IsBlank(str) == \A k \in 1..Len(str) : str[k] = SPACE

\* the tag a text that is not blank stands for: the text from its first to
\* its last character that is no white space, without one leading '#'
CleanTag(str) ==
  LET ks == {k \in 1..Len(str) : str[k] # SPACE}
      lo == CHOOSE k \in ks : \A m \in ks : k <= m
      hi == CHOOSE k \in ks : \A m \in ks : m <= k
  IN IF str[lo] = HASH THEN SubSeq(str, lo + 1, hi) ELSE SubSeq(str, lo, hi)

\* the tags the displayed card of that id shows
CardTags(data, id) ==
  Tags(data.nuggets[CHOOSE k \in 1..Len(data.nuggets) :
                       /\ data.nuggets[k].id = id
                       /\ \A m \in 1..(k - 1) : data.nuggets[m].id # id])

\* seq2 is seq1 with the tags of the entries of that id set to tags
Retagged(seq1, seq2, id, tags) ==
  /\ Len(seq2) = Len(seq1)
  /\ \A k \in 1..Len(seq1) :
        /\ seq2[k].id = seq1[k].id
        /\ Tags(seq2[k]) = IF seq1[k].id = id THEN tags ELSE Tags(seq1[k])

\* the list has no entry twice
NoDuplicates(seq) == \A i \in 1..Len(seq), j \in 1..Len(seq) : seq[i] = seq[j] => i = j

FetchOps == {"DirectOk", "DirectFail", "PrefetchOk", "PrefetchFail", "TimerFires"}

\* C19: a filter change, the emptying of the cache it causes and the
\* extraction that follows leave the ledger as it is: the same notes with
\* the same fields in the same order.
C19_FiltersKeepLedger ==
  [][last'.op \in FilterOps \cup FetchOps => notes' = notes]_vars

\* the Metadata switch has just been turned off while the front matter
\* segment is displayed with a selected nugget: the cache is empty, the
\* segment is extracted again without front matter, the note is there
C19_Witness ==
  /\ last.op = "ToggleBoilerplate" /\ ~analyzeBoilerplate
  /\ currentChapterIndex = 1 /\ Displays(1)
  /\ cachedChapters = EmptyMap
  /\ \E r \in DirectInFlight : r.index = 1 /\ ~r.clo.analyzeBoilerplate
  /\ \E k \in 1..Len(currentChapterData.nuggets), n \in 1..Len(notes) :
        currentChapterData.nuggets[k].id = notes[n].id

\* C20: what the cache, the displayed analysis and the usage hold comes from
\* the loaded document: with no document loaded the cache is empty, nothing
\* is displayed and the usage is zero, whatever was in flight at the reset;
\* and the answer to a call issued before a reset changes no state but the
\* set of pending calls.
C20_SessionIsolation ==
  /\ [](book = Null =>
          (/\ cachedChapters = EmptyMap
           /\ currentChapterData = Null
           /\ stats = ZeroStats
           /\ notes = << >>))
  /\ [][(last'.op \in {"DirectOk", "PrefetchOk"} /\ (inflight \ inflight') \cap stale # {}) =>
          (/\ cachedChapters' = cachedChapters
           /\ currentChapterData' = currentChapterData
           /\ stats' = stats
           /\ notes' = notes)]_vars

\* C23: an extraction call answered by an empty or unparsable text ends as
\* a success without nuggets and without usage: the segment is in the cache
\* with no nuggets, no error is set, the usage is as it was.
C23_MalformedResponseIsEmptySuccess ==
  [][last'.outcome \in {"empty", "unparsable"} =>
       (/\ MapHas(cachedChapters', last'.index)
        /\ cachedChapters'[last'.index].nuggets = << >>
        /\ error' = error
        /\ stats' = stats)]_vars

\* ------------------------------------------- the extraction service alone
\* the nugget lists a structured answer can hold
RawNuggetLists ==
  LET N(id, type) == [id |-> id, type |-> type, content |-> <<"content", id>>] IN
  { << >>,
    << N("n0", QUOTE) >>,
    << N("n0", QUOTE), N("n1", LEARNING) >>,
    << N("n0", INSIGHT), N("n1", QUOTE), N("n2", INSIGHT) >>,
    << N("n0", QUOTE), N("n0", LEARNING) >> }

\* the location labels of the two parsers
ScanLocations == {<<"Section", 1>>, <<"Pages", 1>>}

\* the answers of the service and the arguments of scanChapterForNuggets
ScanInputs ==
  [rawData : [title : {"t"}, isBoilerplate : BOOLEAN, isBackMatter : BOOLEAN,
              nuggets : RawNuggetLists],
   usage : Usages,
   chapterIndex : 0..(NumSegs - 1),
   locationLabel : ScanLocations,
   includeBackMatter : BOOLEAN,
   includeBoilerplate : BOOLEAN,
   selectedTypes : SUBSET NuggetType]

InitScan ==
  /\ ProgramInit
  /\ \E i \in ScanInputs : applied = [fn |-> "scanChapterForNuggets", input |-> i, output |-> Null]

\* the call of scanChapterForNuggets
ApplyScan ==
  /\ applied # Null /\ applied.fn = "scanChapterForNuggets" /\ applied.output = Null
  /\ LET i == applied.input IN
     applied' = [applied EXCEPT !.output =
        ScanChapterForNuggets(i.rawData, i.usage, i.chapterIndex, i.locationLabel,
                              i.includeBackMatter, i.includeBoilerplate, i.selectedTypes)]
  /\ UNCHANGED <<book, currentChapterIndex, currentChapterData, notes, isProcessing,
                 isAnalyzing, error, stats, analyzeBackMatter, analyzeBoilerplate,
                 selectedNuggetTypes, cachedChapters, isPrefetching, localStorage,
                 inflight, timers, parsing, isSearching, searchCall, ledgerActs,
                 inForce, stale, billed, acts, last, armed, armedIdle>>

SpecScan == InitScan /\ [][ApplyScan]_vars

\* scanChapterForNuggets has been applied
Scanned == applied # Null /\ applied.fn = "scanChapterForNuggets" /\ applied.output # Null

\* the types and contents of a list of nuggets
TypesAndContents(seq) == [k \in 1..Len(seq) |-> <<seq[k].type, seq[k].content>>]

\* C21: an answer classified as back matter while back matter is excluded,
\* or as boilerplate front matter while boilerplate is excluded, gives an
\* analysis without nuggets that carries both flags as reported; any other
\* answer gives the reported nuggets of the selected types, in their order,
\* with both flags as reported.
C21_SkipOnlyWhenClassified ==
  Scanned =>
    LET i == applied.input
        data == applied.output.data
        skip == \/ i.rawData.isBackMatter /\ ~i.includeBackMatter
                \/ i.rawData.isBoilerplate /\ ~i.includeBoilerplate
        Selected(n) == n.type \in i.selectedTypes
    IN /\ data.isBackMatter = i.rawData.isBackMatter
       /\ data.isFrontMatter = i.rawData.isBoilerplate
       /\ skip => data.nuggets = << >>
       /\ ~skip => TypesAndContents(data.nuggets)
                     = TypesAndContents(SelectSeq(i.rawData.nuggets, Selected))

\* an answer with nuggets, classified as boilerplate and as back matter, has
\* been scanned with back matter included and boilerplate excluded
C21_Witness ==
  /\ Scanned
  /\ applied.input.rawData.isBoilerplate /\ applied.input.rawData.isBackMatter
  /\ applied.input.includeBackMatter /\ ~applied.input.includeBoilerplate
  /\ Len(applied.input.rawData.nuggets) = 2
  /\ applied.input.selectedTypes = NuggetType
  /\ applied.output.data.nuggets = << >>
  /\ applied.output.data.isBackMatter /\ applied.output.data.isFrontMatter

\* C22, the service: the analysis scanChapterForNuggets returns holds
\* nuggets of the types it was called with only.
C22_ServiceDropsOtherTypes ==
  Scanned =>
    \A k \in 1..Len(applied.output.data.nuggets) :
       applied.output.data.nuggets[k].type \in applied.input.selectedTypes

\* C22: the analysis an extraction call puts into the cache or on display
\* holds nuggets of the types that were selected when the call was issued
\* only.
C22_CachedTypesAreSelected ==
  [][last'.op \in {"DirectOk", "PrefetchOk"} =>
       \A r \in inflight \ inflight' :
          LET data == MapGet(cachedChapters', r.index) IN
          /\ data # Null =>
               \A k \in 1..Len(data.nuggets) : data.nuggets[k].type \in inForce[r]
          /\ (r.kind = "direct" /\ currentChapterData' # Null) =>
               \A k \in 1..Len(currentChapterData'.nuggets) :
                  currentChapterData'.nuggets[k].type \in inForce[r]]_vars

\* C24: the persisted snapshot of a document is deleted when the user
\* confirms "export and close" and when the document is closed with the
\* Close Book button: after either step no snapshot exists under the key of
\* the document that was open, and no step recreates one while no document
\* is loaded.
C24_SnapshotDeletedOnClose ==
  /\ [][last'.op \in ResetOps => localStorage'[StorageKey(book)] = Null]_vars
  /\ [][book = Null /\ book' = Null =>
          \A k \in StorageKeys :
            localStorage[k] = Null => localStorage'[k] = Null]_vars

\* the snapshot that the save effect writes in state s
SnapshotOf(s) ==
  [chapterIndex |-> s.currentChapterIndex, notes |-> s.notes, stats |-> s.stats]

\* C25: whenever a document is loaded (and the effects of the last step have
\* run), the snapshot stored under the key of the document equals the current
\* segment index, notes and usage statistics: it is the text that
\* JSON.stringify makes of them.
C25_SnapshotIsCurrent ==
  book # Null => localStorage[StorageKey(book)] = JsonStringify(SnapshotOf(Cur))

C25_Witness ==
  /\ book # Null
  /\ last.op = "ToggleCard"
  /\ notes # << >>
  /\ stats # ZeroStats
  /\ currentChapterIndex > 0
  /\ localStorage[StorageKey(book)] = JsonStringify(SnapshotOf(Cur))

\* C26: if a snapshot exists under the key of a document when the document
\* is opened, then after the load the current index, the notes and the usage
\* statistics are those of the snapshot, and the storage still holds them:
\* the write of the initial empty state at open loses nothing.
C26_SnapshotRoundTrip ==
  [][last'.op = "UploadDone" /\ localStorage[StorageKey(book')] # Null =>
       LET text == localStorage[StorageKey(book')]
           parsed == JsonParse(text)
       IN /\ currentChapterIndex' = parsed.chapterIndex
          /\ notes' = parsed.notes
          /\ stats' = parsed.stats
          /\ localStorage'[StorageKey(book')] = text]_vars

C26_Witness ==
  /\ last.op = "UploadDone"
  /\ currentChapterIndex = 1
  /\ Len(notes) = 2
  /\ stats = EarlierSnapshot(book.title).stats
  /\ JsonParse(localStorage[StorageKey(book)]).notes = notes

\* ------------------------------------------------ the search window alone
\* the documents and the positions in them
WindowInputs == {[length |-> n, index |-> i] : n \in 1..MaxDocLen, i \in 0..(MaxDocLen - 1)}

InitWindow ==
  /\ ProgramInit
  /\ \E w \in WindowInputs :
        /\ w.index < w.length
        /\ applied = [fn |-> "handleSearch", input |-> w, output |-> Null]

\* the window of handleSearch for a document and a position
ApplyWindow ==
  /\ applied # Null /\ applied.fn = "handleSearch" /\ applied.output = Null
  /\ applied' = [applied EXCEPT !.output =
                    [window |-> SearchWindow(applied.input.length, applied.input.index)]]
  /\ UNCHANGED <<book, currentChapterIndex, currentChapterData, notes, isProcessing,
                 isAnalyzing, error, stats, analyzeBackMatter, analyzeBoilerplate,
                 selectedNuggetTypes, cachedChapters, isPrefetching, localStorage,
                 inflight, timers, parsing, isSearching, searchCall, ledgerActs,
                 inForce, stale, billed, acts, last, armed, armedIdle>>

SpecWindow == InitWindow /\ [][ApplyWindow]_vars

\* C27: for a document of n >= 1 segments and the current index i, the
\* segments a deep search sends are those of the indices max(0, i-2) ..
\* min(n-1, i+2), in document order: segment i is among them, they are at
\* most 5, and all lie within the document.
C27_SearchWindow ==
  (applied # Null /\ applied.fn = "handleSearch" /\ applied.output # Null) =>
    LET n == applied.input.length
        i == applied.input.index
        w == applied.output.window
        first == Max(0, i - 2)
        final == Min(n - 1, i + 2)
    IN /\ Len(w) = final - first + 1
       /\ \A k \in 1..Len(w) : w[k] = first + k - 1
       /\ \E k \in 1..Len(w) : w[k] = i
       /\ Len(w) <= 5
       /\ \A k \in 1..Len(w) : w[k] \in 0..(n - 1)

C27_Witness ==
  /\ applied # Null /\ applied.fn = "handleSearch" /\ applied.output # Null
  /\ applied.input = [length |-> 8, index |-> 3]
  /\ applied.output.window = <<1, 2, 3, 4, 5>>

\* the positions of the notes of a ledger that a search has added
SearchNotes(seq) == {p \in 1..Len(seq) : seq[p].id[1] = "search"}

\* C28: a positive deep-search result goes through toggleNote as a note with
\* the sortIndex 9999: the ledger then holds it behind every ordinary note
\* of the same chapterIndex and before every note of a higher chapterIndex.
C28_SearchResultPlacement ==
  [][last'.op = "SearchOk" =>
       \E p \in SearchNotes(notes') :
          /\ notes'[p].id \notin NoteIds(notes)
          /\ notes'[p].sortIndex = SEARCH_SORT_INDEX
          /\ NoteIds(notes') = NoteIds(searchCall.notes) \cup {notes'[p].id}
          /\ \A q \in 1..Len(notes') :
                /\ (/\ notes'[q].chapterIndex = notes'[p].chapterIndex
                    /\ q \notin SearchNotes(notes')) => q < p
                /\ notes'[q].chapterIndex > notes'[p].chapterIndex => q > p]_vars

\* a search result sits between an ordinary note of its segment and a note
\* of a later segment
C28_Witness ==
  /\ last.op = "SearchOk" /\ Len(notes) = 3
  /\ notes[2].id[1] = "search"
  /\ notes[1].id[1] = "c" /\ notes[1].chapterIndex = notes[2].chapterIndex
  /\ notes[3].chapterIndex > notes[2].chapterIndex

\* the steps of a deep search, and those that end one
SearchOps == {"Search", "SearchOk", "SearchNone", "SearchFail"}
SearchOutcomes == {"SearchOk", "SearchNone", "SearchFail"}

\* state s with the analysis cache emptied
WithoutCache(s) == [s EXCEPT !.cachedChapters = EmptyMap]

\* C29: a deep search neither reads nor writes the analysis cache (each of
\* its handlers does the same on an emptied cache and leaves the cache as it
\* is) and changes neither the usage statistics, the current index nor the
\* displayed analysis; a search that fails or finds nothing leaves the
\* ledger as it is; after every outcome the searching flag is false.
C29_SearchIsIsolated ==
  /\ [](/\ \A query \in SearchQueries :
             WithoutCache(handleSearch(Cur, query)) = handleSearch(WithoutCache(Cur), query)
        /\ searchCall # Null =>
             /\ WithoutCache(searchEnded(Cur)) = searchEnded(WithoutCache(Cur))
             /\ \A result \in SearchResults :
                  WithoutCache(searchFound(Cur, result, acts)) =
                     searchFound(WithoutCache(Cur), result, acts))
  /\ [][last'.op \in SearchOps =>
          /\ cachedChapters' = cachedChapters
          /\ stats' = stats
          /\ currentChapterIndex' = currentChapterIndex
          /\ currentChapterData' = currentChapterData]_vars
  /\ [][last'.op \in {"SearchNone", "SearchFail"} => notes' = notes]_vars
  /\ [][last'.op \in SearchOutcomes => ~isSearching']_vars

\* a search has found nothing while the ledger, the cache and the usage
\* statistics hold something
C29_Witness ==
  /\ last.op = "SearchNone"
  /\ ~isSearching
  /\ notes # << >>
  /\ cachedChapters # EmptyMap
  /\ stats # ZeroStats

\* ------------------------------------------------------ the parsers alone
\* the most pages of a PDF file and the most entries of an EPUB archive
MaxPages == 7
MaxEntries == 3

\* the loop of parsePdf from page i on: three pages make one segment
RECURSIVE PdfLoop(_, _, _, _)
PdfLoop(i, numPages, chunks, locations) ==
  IF i > numPages THEN [chunks |-> chunks, locations |-> locations]
  ELSE LET end == IF i + 2 < numPages THEN i + 2 ELSE numPages
       IN PdfLoop(i + 3, numPages,
                  Append(chunks, <<"pages", i, end>>),
                  Append(locations, IF i = end THEN <<"Page", i>> ELSE <<"Pages", i, end>>))

parsePdf(file) ==
  LET r == PdfLoop(1, file.numPages, << >>, << >>)
  IN [title |-> file.name, chunks |-> r.chunks, locations |-> r.locations]

\* the loop of parseEpub over the sorted entries of the archive from entry k
\* on: an entry is a section when its name ends in .xhtml or .html and its
\* trimmed text has more than 100 characters
RECURSIVE EpubLoop(_, _, _, _, _)
EpubLoop(k, entries, count, chunks, locations) ==
  IF k > Len(entries) THEN [chunks |-> chunks, locations |-> locations]
  ELSE IF entries[k].html /\ entries[k].trimmedLength > 100
       THEN EpubLoop(k + 1, entries, count + 1,
                     Append(chunks, <<"text", k>>),
                     Append(locations, <<"Section", count + 1>>))
       ELSE EpubLoop(k + 1, entries, count, chunks, locations)

parseEpub(file) ==
  LET r == EpubLoop(1, file.entries, 0, << >>, << >>)
  IN [title |-> file.name, chunks |-> r.chunks, locations |-> r.locations]

\* the document handleFileUpload installs for a file
InstalledBook(file) ==
  LET result == IF file.kind = "pdf" THEN parsePdf(file) ELSE parseEpub(file)
  IN [title |-> result.title,
      chapters |-> result.chunks,
      chapterLocations |-> result.locations]

\* the entries of an archive: other files, and sections of 100 and of 101
\* characters
EpubEntries ==
  {[html |-> FALSE, trimmedLength |-> 0],
   [html |-> TRUE, trimmedLength |-> 100],
   [html |-> TRUE, trimmedLength |-> 101]}

EntryLists == UNION {[1..n -> EpubEntries] : n \in 0..MaxEntries}

\* the files the parsers accept
ParserInputs ==
  {[kind |-> "pdf", name |-> "bookA", numPages |-> n, entries |-> << >>] : n \in 1..MaxPages}
  \cup {[kind |-> "epub", name |-> "bookA", numPages |-> 0, entries |-> e] : e \in EntryLists}

InitParse ==
  /\ ProgramInit
  /\ \E f \in ParserInputs : applied = [fn |-> "handleFileUpload", input |-> f, output |-> Null]

\* the upload of a file up to setBook
ApplyParse ==
  /\ applied # Null /\ applied.fn = "handleFileUpload" /\ applied.output = Null
  /\ applied' = [applied EXCEPT !.output = [book |-> InstalledBook(applied.input)]]
  /\ UNCHANGED <<book, currentChapterIndex, currentChapterData, notes, isProcessing,
                 isAnalyzing, error, stats, analyzeBackMatter, analyzeBoilerplate,
                 selectedNuggetTypes, cachedChapters, isPrefetching, localStorage,
                 inflight, timers, parsing, isSearching, searchCall, ledgerActs,
                 inForce, stale, billed, acts, last, armed, armedIdle>>

SpecParse == InitParse /\ [][ApplyParse]_vars

\* C30: every document that becomes loaded has as many locations as
\* segments, and at least one segment.
C30_DocumentsHaveSegments ==
  (applied # Null /\ applied.fn = "handleFileUpload" /\ applied.output # Null) =>
    LET b == applied.output.book
    IN /\ Len(b.chapters) = Len(b.chapterLocations)
       /\ Len(b.chapters) >= 1

\* C31: an upload that fails sets an error message and leaves no partial
\* document: no document is loaded before or after, the current index, the
\* notes and the usage statistics are what they were, and the processing
\* flag is false afterwards; the start of the upload changes none of them
\* either.
C31_FailedUploadLeavesNoDocument ==
  /\ [][last'.op = "UploadFail" =>
          /\ error' # NoError
          /\ ~isProcessing'
          /\ book = Null /\ book' = Null]_vars
  /\ [][last'.op \in {"UploadFile", "UploadFail"} =>
          /\ book' = book
          /\ currentChapterIndex' = currentChapterIndex
          /\ notes' = notes
          /\ stats' = stats]_vars

\* an upload has failed in a session that has usage from before
C31_Witness ==
  /\ last.op = "UploadFail"
  /\ error = ParseErrorMsg
  /\ book = Null
  /\ ~isProcessing
  /\ stats # ZeroStats

\* ------------------------------------------------------- the export alone
\* the most notes of an exported ledger
MaxNotes == 3

\* the titles the analyses give to segments: a word, and two numerals
ExportTitles == {"Preface", "2", "10"}

\* the property names that are array indices (canonical numerals), and
\* their values
ArrayIndexKeys == {"2", "10"}
KeyNumber(key) == IF key = "2" THEN 2 ELSE 10

\* the keys of the object grouped in the order the loop over the notes
\* creates them
RECURSIVE InsertedKeys(_, _)
InsertedKeys(seq, keys) ==
  IF seq = << >> THEN keys
  ELSE LET title == Head(seq).chapterTitle
           Is(k) == k = title
       IN InsertedKeys(Tail(seq),
                       IF SelectSeq(keys, Is) # << >> THEN keys ELSE Append(keys, title))

\* Object.keys: the array indices in ascending order, then the other keys
\* in the order of their creation
ObjectKeys(inserted) ==
  LET IsIndex(k) == k \in ArrayIndexKeys
      IsName(k) == k \notin ArrayIndexKeys
      Ascending(a, b) == KeyNumber(a) < KeyNumber(b)
  IN SortSeq(SelectSeq(inserted, IsIndex), Ascending) \o SelectSeq(inserted, IsName)

\* the line of one note
ExportLine(item) ==
  LET source == Prop(item, "source", "undefined")
      loc == Prop(item, "locationLabel", "undefined")
      tags == Prop(item, "tags", << >>)
  IN [kind |-> "line",
      prefix |-> IF item.type = QUOTE THEN "> "
                 ELSE IF item.type = LEARNING THEN "* **Key Learning:** " ELSE "* ",
      content |-> item.content,
      source |-> IF source \in {"undefined", ""} THEN << >> ELSE <<" - ", source>>,
      loc |-> IF loc = "undefined" THEN << >> ELSE <<" (", loc, ")">>,
      tags |-> [k \in 1..Len(tags) |-> <<HASH, tags[k]>>]]

\* the header of a group and the lines of its notes
RECURSIVE ExportGroups(_, _)
ExportGroups(keys, seq) ==
  IF keys = << >> THEN << >>
  ELSE LET Grouped(n) == n.chapterTitle = Head(keys)
           items == SelectSeq(seq, Grouped)
       IN << [kind |-> "header", text |-> Head(keys)] >>
          \o [k \in 1..Len(items) |-> ExportLine(items[k])]
          \o ExportGroups(Tail(keys), seq)

\* the Markdown that downloadNotes offers for download, as its lines;
\* nothing is offered for an empty ledger
ExportMarkdown(title, seq) ==
  IF seq = << >> THEN << >>
  ELSE << [kind |-> "title", text |-> title] >>
       \o ExportGroups(ObjectKeys(InsertedKeys(seq, << >>)), seq)

\* the ledgers that are exported: note k is the first nugget of segment k
ExportNote(k, title, type) ==
  [id |-> <<"c", k, "n0">>, content |-> <<"content", k, 0>>, type |-> type,
   chapterTitle |-> title, chapterIndex |-> k, sortIndex |-> 0,
   locationLabel |-> "Section", tags |-> << >>, source |-> "undefined"]

ExportLedgers ==
  UNION {{[k \in 1..n |-> ExportNote(k, f[k][1], f[k][2])] :
            f \in [1..n -> ExportTitles \X {QUOTE, LEARNING}]} : n \in 0..MaxNotes}

InitExport ==
  /\ ProgramInit
  /\ \E seq \in ExportLedgers :
        applied = [fn |-> "downloadNotes", input |-> seq, output |-> Null]

\* the EXPORT .MD button for a ledger
ApplyExport ==
  /\ applied # Null /\ applied.fn = "downloadNotes" /\ applied.output = Null
  /\ applied' = [applied EXCEPT !.output =
                    [markdown |-> ExportMarkdown("bookA", applied.input)]]
  /\ UNCHANGED <<book, currentChapterIndex, currentChapterData, notes, isProcessing,
                 isAnalyzing, error, stats, analyzeBackMatter, analyzeBoilerplate,
                 selectedNuggetTypes, cachedChapters, isPrefetching, localStorage,
                 inflight, timers, parsing, isSearching, searchCall, ledgerActs,
                 inForce, stale, billed, acts, last, armed, armedIdle>>

SpecExport == InitExport /\ [][ApplyExport]_vars

\* the positions of the headers and of the lines of an export
HeaderPositions(md) == {p \in 1..Len(md) : md[p].kind = "header"}
LinePositions(md) == {p \in 1..Len(md) : md[p].kind = "line"}

\* the header a line stands under
HeaderOf(md, p) ==
  LET above == {h \in HeaderPositions(md) : h < p}
  IN md[CHOOSE h \in above : \A g \in above : g <= h].text

\* the position in the ledger of the note a line renders
NoteOf(seq, line) == CHOOSE k \in 1..Len(seq) : seq[k].content = line.content

\* the position in the ledger of the first note of a title
FirstOf(seq, title) ==
  CHOOSE k \in 1..Len(seq) :
    seq[k].chapterTitle = title /\ \A j \in 1..(k - 1) : seq[j].chapterTitle # title

\* every note is emitted once, under the header of its chapterTitle, the
\* notes of a header in the order of the ledger
EmittedOnceInOrder(seq, md) ==
  /\ \A k \in 1..Len(seq) :
        Cardinality({p \in LinePositions(md) : md[p].content = seq[k].content}) = 1
  /\ Cardinality(LinePositions(md)) = Len(seq)
  /\ \A p \in LinePositions(md) :
        /\ HeaderOf(md, p) = seq[NoteOf(seq, md[p])].chapterTitle
        /\ seq[NoteOf(seq, md[p])].type = QUOTE => md[p].prefix = "> "
  /\ \A p, q \in LinePositions(md) :
        (p < q /\ HeaderOf(md, p) = HeaderOf(md, q)) =>
           NoteOf(seq, md[p]) < NoteOf(seq, md[q])

\* the headers stand in the order in which their titles first appear in
\* the ledger
HeadersInLedgerOrder(seq, md) ==
  \A g, h \in HeaderPositions(md) :
     g < h => FirstOf(seq, md[g].text) < FirstOf(seq, md[h].text)

\* C32: the export of a ledger with notes emits every note once, under a
\* header that is its chapterTitle, the notes of a header in ledger order
\* and the headers in the order of their first appearance in the ledger, a
\* quote as a line that starts with "> " and its content; the export of an
\* empty ledger emits nothing.
C32_ExportFollowsLedger ==
  (applied # Null /\ applied.fn = "downloadNotes" /\ applied.output # Null) =>
    LET seq == applied.input
        md == applied.output.markdown
    IN IF seq = << >> THEN md = << >>
       ELSE /\ EmittedOnceInOrder(seq, md)
            /\ HeadersInLedgerOrder(seq, md)

\* what an analysis holds besides the tags of its nuggets
AnalysisContent(data) ==
  [isBackMatter |-> data.isBackMatter, isFrontMatter |-> data.isFrontMatter,
   nuggets |-> [k \in 1..Len(data.nuggets) |-> data.nuggets[k].id]]

\* the analysis of segment i of the loaded document under the filter values
\* of state s
AnalysisUnder(s, i) ==
  ScanChapterForNuggets(RawResponse(ChapterText(s.book, i)), NoUsage, i,
                        ChapterLocation(s.book, i), s.analyzeBackMatter,
                        s.analyzeBoilerplate, s.selectedNuggetTypes).data

\* C33: every entry of the analysis cache of the loaded document was made
\* by a request with the filter values now in force: it holds what the
\* service gives for its segment under these values, and nothing computed
\* under values that a filter change has superseded.
C33_CacheMatchesFilters ==
  book # Null =>
    \A i \in DOMAIN cachedChapters :
       AnalysisContent(cachedChapters[i]) = AnalysisContent(AnalysisUnder(Cur, i))

\* C34: a successful deep search adds its one new note to the ledger as the
\* ledger is when the search resolves: no note that was added while the
\* search was in flight is lost, and none that was removed comes back.
C34_SearchAddsToCurrentLedger ==
  [][last'.op = "SearchOk" =>
       \E p \in 1..Len(notes') :
          /\ notes'[p].id \notin NoteIds(notes)
          /\ NoteIds(notes') = NoteIds(notes) \cup {notes'[p].id}
          /\ Len(notes') = Len(notes) + 1]_vars

\* C35: every ordinary note of the ledger (one of a nugget of an analysis,
\* not of a search) has as chapterIndex the index of the segment its nugget
\* was extracted from, which its id names, and as chapterTitle the title of
\* the analysis of that segment.
C35_NoteNamesItsSegment ==
  \A p \in 1..Len(notes) :
     notes[p].id[1] = "c" =>
        /\ notes[p].chapterIndex = notes[p].id[2]
        /\ notes[p].chapterTitle = RawResponse(<<"text", notes[p].id[2]>>).title

\* C36: the analyzing flag is true exactly in the states in which a direct
\* fetch is in flight.
C36_AnalyzingIffDirectInFlight == isAnalyzing <=> DirectInFlight # {}

\* C37: adding a tag to a card removes no tag of a note: after the step
\* every note has the tags it had, with at most the new tag behind them.
C37_AddTagKeepsNoteTags ==
  [][last'.op = "AddTag" =>
       \A p \in 1..Len(notes), q \in 1..Len(notes') :
          notes'[q].id = notes[p].id =>
             \/ Tags(notes'[q]) = Tags(notes[p])
             \/ Tags(notes'[q]) = Append(Tags(notes[p]), CleanTag(last'.arg.text))]_vars

\* ------------------------------- a snapshot of another file of that title
\* the snapshot that a session on a longer file of the same title has left
\* under the key of the document (the same book as PDF and as EPUB, or a
\* longer edition): the reader was beyond the last segment of this file
LongerFileSnapshot ==
  [chapterIndex |-> NumSegs + 1, notes |-> << >>, stats |-> ZeroStats]

InitRestore ==
  /\ ProgramStart([k \in StorageKeys |-> JsonStringify(LongerFileSnapshot)])
  /\ applied = Null

SpecRestore == InitRestore /\ [][Next]_vars

\* C38: whenever a document of n segments is loaded, the current index is
\* one of 0..n-1, and no extraction request is issued for an index outside
\* the document the request is for.
C38_IndexWithinDocument ==
  /\ [](book # Null => currentChapterIndex \in 0..(BookLength(book) - 1))
  /\ [][\A r \in Issued : r.index \in 0..(BookLength(r.clo.book) - 1)]_vars

\* C39: a prefetch issues an extraction call only when a document is loaded,
\* the target index is below the number of its segments, the index is not in
\* the cache and no prefetch is busy; a timer that fires for the index after
\* the last segment issues nothing, and a prefetch answer writes no cache
\* entry other than the one of its index, which was absent when it started.
C39_PrefetchGuard ==
  /\ [][\A r \in Issued : r.kind = "prefetch" =>
          /\ book # Null
          /\ r.index < BookLength(book)
          /\ ~MapHas(cachedChapters, r.index)
          /\ ~isPrefetching]_vars
  /\ [][(last'.op = "TimerFires" /\ book # Null /\ last'.index >= BookLength(book)) =>
          Issued = {}]_vars
  /\ [][last'.op = "PrefetchOk" =>
          \A i \in 0..(NumSegs - 1) :
             (MapHas(cachedChapters, i) /\ i # last'.index) =>
                (MapHas(cachedChapters', i)
                 /\ MapGet(cachedChapters', i) = MapGet(cachedChapters, i))]_vars

\* the sub-ids of the reported nuggets of the selected types, in their order
SelectedSubIds(i) ==
  LET Selected(n) == n.type \in i.selectedTypes
      filtered == SelectSeq(i.rawData.nuggets, Selected)
  IN [j \in 1..Len(filtered) |-> filtered[j].id]

\* C40: in the analysis returned for segment index k the j-th nugget,
\* counted from 0 after the type filter, has sortIndex j, the id made of
\* 'c', k and the service's sub-id, and the location label of the call;
\* nuggets with distinct sub-ids have distinct ids.
C40_NuggetNumbering ==
  Scanned =>
    LET i == applied.input
        nuggets == applied.output.data.nuggets
        sub == SelectedSubIds(i)
    IN /\ \A j \in 1..Len(nuggets) :
            /\ nuggets[j].sortIndex = j - 1
            /\ nuggets[j].id = <<"c", i.chapterIndex, sub[j]>>
            /\ nuggets[j].locationLabel = i.locationLabel
       /\ {nuggets[j].sortIndex : j \in 1..Len(nuggets)} = 0..(Len(nuggets) - 1)
       /\ \A j1, j2 \in 1..Len(nuggets) :
            sub[j1] # sub[j2] => nuggets[j1].id # nuggets[j2].id

\* the quote between two insights has been returned alone for a segment
\* other than the first: it is numbered 0 and carries the segment's index
C40_Witness ==
  /\ Scanned
  /\ Len(applied.input.rawData.nuggets) = 3
  /\ applied.input.selectedTypes = {QUOTE}
  /\ applied.input.chapterIndex = 1
  /\ applied.input.locationLabel = <<"Pages", 1>>
  /\ Len(applied.output.data.nuggets) = 1
  /\ applied.output.data.nuggets[1].id = <<"c", 1, "n1">>
  /\ applied.output.data.nuggets[1].sortIndex = 0

====
